---- MODULE Spec2Model ----
(***************************************************************************)
(* poly-solver: a browser front end (src/unnamed/part_000, src/maths.js)   *)
(* that normalises a typed expression (parseExpression), hands it to an    *)
(* embedded Pyodide/SymPy engine (runSympyCommand, computeXYWithPyodide)   *)
(* and writes the result to the page (doMaths, plotExpression).            *)
(*                                                                         *)
(* Three specifications share this module:                                 *)
(*   SpecParse   parseExpression applied to bounded input strings          *)
(*   SpecSample  computeXYWithPyodide applied to bounded sampling requests *)
(*   Spec        the page: loader, doMaths triggers, engine calls, timers  *)
(* Strings that the code inspects character by character are sequences of  *)
(* one-character strings.                                                  *)
(***************************************************************************)
EXTENDS Integers, Sequences, FiniteSets, TLC

VARIABLES
    pIn,        \* parseExpression: the argument expr
    pOut,       \* parseExpression: the returned string, NotRun before the call
    pAgain,     \* what parseExpression returns for pOut, NotRun before that
    pPhase,     \* "input" before the call, "parsed" after it, then "reparsed"
    sExpr,      \* computeXYWithPyodide: the argument exprParsed
    sMin,       \* the argument xMin
    sMax,       \* the argument xMax
    sPoints,    \* the argument points
    sCast,      \* whether float() of a complex sample raises in this build
    sResult,    \* what the call returned or that it threw, NotRun before it
    sPhase,     \* "request" before the call, "sampled" after it
    pyodideReady,   \* the global flag pyodideReady
    loader,         \* loadPyodideAndPackages: "loading", "ready" or "failed"
    plotly,         \* whether window.Plotly is defined
    user_expr,      \* pyodide.globals' user_expr, or Unbound
    issued,         \* the number of doMaths triggers so far
    pc,             \* per doMaths call: where it is suspended
    req,            \* per call: the selected command, command and exprParsed,
                    \* and whether it has overlapped no other call
    py,             \* per call: its runPythonAsync promise
    engineQ,        \* the calls whose runPythonAsync promise is outstanding
    outcome,        \* per call: how it ended
    output,         \* the #output element: its text and the call that wrote it
    alertMsg,       \* the text of the last alert(), "" if none
    deferred,       \* per call: plotExpression's animation-frame/450 ms chain
    graph,          \* the #graph element: style.height and the plot it holds
    clearTimers,    \* pending setTimeout(400) callbacks that empty #graph
    rawtext,        \* the #rawtext panel and its two text fields
    hideTimers      \* pending setTimeout(400) callbacks that hide #rawtext

parseVars == <<pIn, pOut, pAgain, pPhase>>

sampleVars == <<sExpr, sMin, sMax, sPoints, sCast, sResult, sPhase>>

uiVars ==
    <<pyodideReady, loader, plotly, user_expr, issued, pc, req, py, engineQ,
      outcome, output, alertMsg, deferred, graph, clearTimers, rawtext,
      hideTimers>>

(***************************************************************************)
(* Bounds of the model.                                                    *)
(***************************************************************************)
MaxLen == 5

\* Sampling requests: at most MaxPoints points over [xMin, xMax] with
\* -MaxAbsX <= xMin < xMax <= MaxAbsX.
MaxPoints == 5

MaxAbsX == 2

\* The number of doMaths triggers in one run.
MaxCalls == 2

(***************************************************************************)
(* Character classes of the regular expressions of parseExpression.        *)
(***************************************************************************)
Digits == {"0", "1", "2", "3", "4", "5", "6", "7", "8", "9"}

Letters ==
    {"a", "b", "c", "d", "e", "f", "g", "h", "i", "j", "k", "l", "m",
     "n", "o", "p", "q", "r", "s", "t", "u", "v", "w", "x", "y", "z",
     "A", "B", "C", "D", "E", "F", "G", "H", "I", "J", "K", "L", "M",
     "N", "O", "P", "Q", "R", "S", "T", "U", "V", "W", "X", "Y", "Z"}

Whitespace == {" ", "\t", "\n", "\r"}

AlphaNum == Letters \cup Digits

\* The characters the bounded inputs are built from.
Alphabet == {"2", "x", "(", ")", " ", "^", "=", "*"}

NotRun == <<"<not run>">>

(***************************************************************************)
(* Helpers on strings.                                                     *)
(***************************************************************************)
RECURSIVE SkipWS(_, _)
\* \s* matched greedily from position i: the first position at or after i
\* that holds no whitespace (Len(s)+1 when there is none).
SkipWS(s, i) ==
    IF i <= Len(s) /\ s[i] \in Whitespace THEN SkipWS(s, i + 1) ELSE i

RECURSIVE SkipWSBack(_, _)
SkipWSBack(s, i) ==
    IF i >= 1 /\ s[i] \in Whitespace THEN SkipWSBack(s, i - 1) ELSE i

Count(ch, s) == Cardinality({i \in 1..Len(s) : s[i] = ch})

Contains(s, ch) == \E i \in 1..Len(s) : s[i] = ch

\* expr.trim()
Trim(s) == SubSeq(s, SkipWS(s, 1), SkipWSBack(s, Len(s)))

(***************************************************************************)
(* parseExpression, one operator per replace call, each a left-to-right    *)
(* scan for non-overlapping matches as String.prototype.replace with a /g  *)
(* regular expression does it.                                             *)
(***************************************************************************)
RECURSIVE PowerFrom(_, _)
PowerFrom(s, i) ==
    IF i > Len(s) THEN <<>>
    ELSE IF s[i] = "^" THEN <<"*", "*">> \o PowerFrom(s, i + 1)
    ELSE <<s[i]>> \o PowerFrom(s, i + 1)

\* parsed.replace(/\^/g, "**")
ReplacePower(s) == PowerFrom(s, 1)

RECURSIVE DigitLetterFrom(_, _)
DigitLetterFrom(s, i) ==
    IF i > Len(s) THEN <<>>
    ELSE IF i < Len(s) /\ s[i] \in Digits /\ s[i + 1] \in Letters
         THEN <<s[i], "*", s[i + 1]>> \o DigitLetterFrom(s, i + 2)
    ELSE <<s[i]>> \o DigitLetterFrom(s, i + 1)

\* The same replace without the g flag, which rewrites the first match only:
\* a faulty variant.
InsertDigitLetterFirstOnly(s) ==
    LET hits == {i \in 1..(Len(s) - 1) : s[i] \in Digits /\ s[i + 1] \in Letters}
    IN  IF hits = {} THEN s
        ELSE LET i == CHOOSE h \in hits : \A g \in hits : h <= g
             IN  SubSeq(s, 1, i) \o <<"*">> \o SubSeq(s, i + 1, Len(s))

\* parsed.replace(/(\d)([a-zA-Z])/g, "$1*$2")
InsertDigitLetter(s) == DigitLetterFrom(s, 1)

\* The second group's class with the digits left out: a faulty variant.
CloseFollowersLettersOnly == Letters

\* The class [a-zA-Z0-9] of the second group of /(\))(\s*[a-zA-Z0-9])/.
CloseFollowers == AlphaNum

RECURSIVE CloseAlnumFrom(_, _)
CloseAlnumFrom(s, i) ==
    IF i > Len(s) THEN <<>>
    ELSE LET j == SkipWS(s, i + 1) IN
         IF s[i] = ")" /\ j <= Len(s) /\ s[j] \in CloseFollowers
         THEN <<")", "*">> \o SubSeq(s, i + 1, j) \o CloseAlnumFrom(s, j + 1)
         ELSE <<s[i]>> \o CloseAlnumFrom(s, i + 1)

\* parsed.replace(/(\))(\s*[a-zA-Z0-9])/g, "$1*$2")
InsertCloseAlnum(s) == CloseAlnumFrom(s, 1)

RECURSIVE DigitOpenFrom(_, _)
DigitOpenFrom(s, i) ==
    IF i > Len(s) THEN <<>>
    ELSE LET j == SkipWS(s, i + 1) IN
         IF s[i] \in Digits /\ j <= Len(s) /\ s[j] = "("
         THEN <<s[i], "*", "(">> \o DigitOpenFrom(s, j + 1)
         ELSE <<s[i]>> \o DigitOpenFrom(s, i + 1)

\* parsed.replace(/(\d)(\s*\()/g, "$1*(")
InsertDigitOpen(s) == DigitOpenFrom(s, 1)

RECURSIVE CloseOpenFrom(_, _)
CloseOpenFrom(s, i) ==
    IF i > Len(s) THEN <<>>
    ELSE LET j == SkipWS(s, i + 1) IN
         IF s[i] = ")" /\ j <= Len(s) /\ s[j] = "("
         THEN <<")", "*", "(">> \o CloseOpenFrom(s, j + 1)
         ELSE <<s[i]>> \o CloseOpenFrom(s, i + 1)

\* parsed.replace(/\)\s*\(/g, ")*(")
InsertCloseOpen(s) == CloseOpenFrom(s, 1)

RECURSIVE CollapseFrom(_, _)
CollapseFrom(s, i) ==
    IF i > Len(s) THEN <<>>
    ELSE IF s[i] \in Whitespace THEN <<" ">> \o CollapseFrom(s, SkipWS(s, i))
    ELSE <<s[i]>> \o CollapseFrom(s, i + 1)

\* parsed.replace(/\s+/g, " ")
CollapseWhitespace(s) == CollapseFrom(s, 1)

\* Whether /\s*=\s*/ matches starting at position i.
EqMatchesAt(s, i) == LET j == SkipWS(s, i) IN j <= Len(s) /\ s[j] = "="

\* The equation rewrite without its closing parenthesis: a faulty variant.
EquationFormNoClose(s) ==
    IF ~Contains(s, "=") THEN s
    ELSE LET i == CHOOSE k \in 1..Len(s) :
                      EqMatchesAt(s, k) /\ \A m \in 1..(k - 1) : ~EqMatchesAt(s, m)
             j == SkipWS(s, i)
         IN  SubSeq(s, 1, i - 1) \o <<"-", "(">>
                 \o SubSeq(s, SkipWS(s, j + 1), Len(s))

\* if (parsed.includes("=")) parsed = parsed.replace(/\s*=\s*/, "-(") + ")"
\* A regular expression without /g replaces its leftmost match only.
EquationForm(s) ==
    IF ~Contains(s, "=") THEN s
    ELSE LET i == CHOOSE k \in 1..Len(s) :
                      EqMatchesAt(s, k) /\ \A m \in 1..(k - 1) : ~EqMatchesAt(s, m)
             j == SkipWS(s, i)
         IN  SubSeq(s, 1, i - 1) \o <<"-", "(">>
                 \o SubSeq(s, SkipWS(s, j + 1), Len(s)) \o <<")">>

\* The string after the replace calls that insert markers, before the
\* whitespace collapse and the equation rewrite.
Marked(expr) ==
    InsertCloseOpen(InsertDigitOpen(InsertCloseAlnum(
        InsertDigitLetter(ReplacePower(Trim(expr))))))

parseExpression(expr) == EquationForm(CollapseWhitespace(Marked(expr)))

(***************************************************************************)
(* The engine as the code uses it.  SymPy and NumPy are not part of the    *)
(* repository; what follows states the behaviour of the calls the Python   *)
(* snippets make on the expressions the model feeds them.                  *)
(***************************************************************************)
\* pyodide.globals has no user_expr.
Unbound == <<"<unbound>">>

E_2x    == <<"2", "*", "x">>
E_inv   == <<"1", "/", "x">>
E_log   == <<"l", "o", "g", "(", "x", ")">>
E_five  == <<"5">>
E_imag  == <<"I", "*", "x">>
E_open  == <<"2", "+">>
E_trans == <<"x", "+", "c", "o", "s", "(", "x", ")">>

DanglingOperators == {"+", "-", "*", "/", "("}

\* expr = sympify(user_expr, locals={'x': x}) raises: the name user_expr is
\* not defined, or the text is no expression (it is empty, ends in an
\* operator, or still holds an "=").
SympifyRaises(e) ==
    \/ e = Unbound
    \/ Len(e) = 0
    \/ e[Len(e)] \in DanglingOperators
    \/ Contains(e, "=")

\* f = lambdify(x, expr, "numpy"); f(xs) is an array only when x occurs in
\* expr: for a constant it is that constant, a scalar.
ScalarResult(e) == ~Contains(e, "x")

\* The value NumPy computes for the expression at x = xn/d (d > 0), by kind.
NumpyValue(e, xn) ==
    IF e = E_inv THEN (IF xn = 0 THEN "inf" ELSE "finite")
    ELSE IF e = E_log
         THEN (IF xn < 0 THEN "nan" ELSE IF xn = 0 THEN "-inf" ELSE "finite")
    ELSE IF e = E_imag THEN "complex"
    ELSE "finite"

(***************************************************************************)
(* computeXYWithPyodide: the Python snippet, then the JavaScript after it. *)
(***************************************************************************)
\* The common denominator of the sample abscissas.
Den(points) == IF points <= 1 THEN 1 ELSE points - 1

\* xs = _np.linspace(xMin, xMax, points), as numerators over Den(points).
Linspace(xMin, xMax, points) ==
    [i \in 1..points |->
        IF points = 1 THEN xMin
        ELSE xMin * (points - 1) + (i - 1) * (xMax - xMin)]

\* try: ys.append(float(v)) / except Exception: ys.append(None).
\* float() keeps inf and nan; on a complex sample it raises or, where the
\* array library casts with a warning, returns the real part.
PyFloat(v, castRaises) ==
    IF v = "complex" THEN (IF castRaises THEN "None" ELSE "finite") ELSE v

\* json.dumps of one entry of ys: Python writes inf and nan as the tokens
\* Infinity, -Infinity and NaN.
JsonToken(v) ==
    CASE v = "finite" -> "num"
      [] v = "inf"    -> "Infinity"
      [] v = "-inf"   -> "-Infinity"
      [] v = "nan"    -> "NaN"
      [] v = "None"   -> "null"

\* The snippet pyCode run with user_expr bound to e (or not bound): it
\* raises, or its value is the JSON text of {'xs': ..., 'ys': ...}.
pyCode(e, xMin, xMax, points, castRaises) ==
    IF SympifyRaises(e) \/ ScalarResult(e)
    THEN [raised |-> TRUE]
    ELSE LET xs == Linspace(xMin, xMax, points) IN
         [raised |-> FALSE,
          xs |-> xs,
          ys |-> [i \in 1..points |->
                     JsonToken(PyFloat(NumpyValue(e, xs[i]), castRaises))]]

\* JSON.parse(jsonStr) throws a SyntaxError on Infinity, -Infinity and NaN.
JsonParseThrows(ys) ==
    \E i \in 1..Len(ys) : ys[i] \in {"Infinity", "-Infinity", "NaN"}

\* obj.ys.map(v => ...): null stays null, a number that is not finite
\* becomes null, a finite number stays.
Sanitize(v) == IF v = "null" \/ v # "num" THEN "null" ELSE v

\* The JavaScript after the await: the returned object, or the throw.
SampleFromPython(pyResult) ==
    IF pyResult.raised \/ JsonParseThrows(pyResult.ys)
    THEN [ok |-> FALSE, xs |-> <<>>, ys |-> <<>>]
    ELSE [ok |-> TRUE, xs |-> pyResult.xs,
          ys |-> [i \in 1..Len(pyResult.ys) |-> Sanitize(pyResult.ys[i])]]

\* obj.ys.some(v => v !== null)
hasNumeric(obj) == \E i \in 1..Len(obj.ys) : obj.ys[i] # "null"

\* One call with nothing else touching user_expr between its globals.set
\* and the snippet.
computeXYWithPyodide(exprParsed, xMin, xMax, points, castRaises) ==
    SampleFromPython(pyCode(exprParsed, xMin, xMax, points, castRaises))

(***************************************************************************)
(* SpecSample: computeXYWithPyodide applied once to a bounded request.     *)
(***************************************************************************)
SampleExprs == {E_2x, E_inv, E_log, E_five, E_imag, E_open}

InitSample ==
    /\ sExpr \in SampleExprs
    /\ sMin \in (0 - MaxAbsX)..MaxAbsX
    /\ sMax \in (0 - MaxAbsX)..MaxAbsX
    /\ sMin < sMax
    /\ sPoints \in 1..MaxPoints
    /\ sCast \in BOOLEAN
    /\ sResult = NotRun
    /\ sPhase = "request"

IdleSample ==
    /\ sExpr = <<>>
    /\ sMin = 0
    /\ sMax = 0
    /\ sPoints = 0
    /\ sCast = FALSE
    /\ sResult = NotRun
    /\ sPhase = "idle"

Sample ==
    /\ sPhase = "request"
    /\ sResult' = computeXYWithPyodide(sExpr, sMin, sMax, sPoints, sCast)
    /\ sPhase' = "sampled"
    /\ UNCHANGED <<sExpr, sMin, sMax, sPoints, sCast>>
    /\ UNCHANGED <<parseVars, uiVars>>

NextSample == Sample

(***************************************************************************)
(* The page.  Calls of doMaths are numbered 1, 2, ... in the order of      *)
(* their triggers.  A step of the model is one task of the browser's event *)
(* loop: the synchronous code from an event or a resumed await up to the   *)
(* next await that does not settle at once.                                *)
(***************************************************************************)
Calls == 1..MaxCalls

\* The values of the command selector that runSympyCommand's switch and
\* doMaths know.
CommandEnum ==
    {"solve", "solvenumeric", "evaluate", "factor", "diff", "integrate",
     "simplify", "expand", "graph"}

\* What the selector can hold when doMaths reads it: a known command, a
\* value outside the enumeration, or nothing.
SelectValues == CommandEnum \cup {"cube", ""}

\* What the input box can hold when doMaths reads it.
BoxValues ==
    { <<" ">>, <<"2", "x">>, <<"2", "+">>, E_trans, E_imag }

\* The texts written to #output and shown by alert().
MsgLoading      == "Please wait for the calculator to load fully."
MsgEnter        == "Enter an equation!"
MsgComputing    == "Computing - please wait..."
MsgError        == "An error occured. (see console for more details)."
MsgGenerating   == "Generating graph - please wait..."
MsgCouldNot     == "Could not graph the equation. Make sure that your function only contains Xs, no other variables! (all graphs automatically make y equal the function) (see console for more info)"
MsgDataBad      == "Could not graph the equation. Data incorrect"
MsgNonReal      == "Function evaluates to non-real values on this range."
MsgGraphed      == "Graph generated below."
MsgRender       == "A rendering error occured (see console)."
MsgNoPlotly     == "Plotly failed to load."

\* The arguments of plotExpression's call of computeXYWithPyodide.
GraphXMin == 0 - 10

GraphXMax == 10

GraphPoints == 600

NoReq == [sel |-> "", command |-> "", expr |-> <<>>, alone |-> FALSE]

NoPy == [st |-> "none"]

\* solve(expr, x) raises NotImplementedError on an equation it has no
\* algorithm for; the other commands return a value for every expression
\* the model feeds them.
CommandRaises(command, e) ==
    command \in {"solve", "solvenumeric"} /\ e = E_trans

\* The switch of runSympyCommand: the Python lines run inside try, named
\* here by the value they leave in result_str and result_raw for expr e.
commandBody(command, e) ==
    CASE command = "solve" ->
            [str |-> <<"latex(Matrix(roots))", e>>, raw |-> <<"roots", e>>]
      [] command = "solvenumeric" ->
            [str |-> <<"latex(Matrix(numeric_roots))", e>>,
             raw |-> <<"numeric_roots", e>>]
      [] command = "evaluate" ->
            [str |-> <<"latex(expr.evalf())", e>>, raw |-> <<"expr.evalf()", e>>]
      [] command = "factor" ->
            [str |-> <<"latex(factor(expr))", e>>, raw |-> <<"factor(expr)", e>>]
      [] command = "diff" ->
            [str |-> <<"latex(diff(expr, x))", e>>, raw |-> <<"diff(expr, x)", e>>]
      [] command = "integrate" ->
            [str |-> <<"latex(integrate(expr, x))", e>>,
             raw |-> <<"integrate(expr, x)", e>>]
      [] command = "simplify" ->
            [str |-> <<"latex(simplify(expr))", e>>, raw |-> <<"simplify(expr)", e>>]
      [] command = "expand" ->
            [str |-> <<"latex(expand(expr))", e>>, raw |-> <<"expand(expr)", e>>]
      [] command = "graph" ->
            [str |-> <<"GRAPH_COMMAND">>, raw |-> <<"GRAPH_COMMAND">>]
      [] OTHER ->
            [str |-> <<"Unknown command: ", command>>, raw |-> <<"Unknown command">>]

\* The Python of runSympyCommand run with user_expr bound to e (or not
\* bound).  sympify stands before the try: when it raises, the snippet
\* raises.  Inside the try an exception becomes the "Error: " result.
sympyCode(command, e) ==
    IF SympifyRaises(e) THEN [st |-> "settled", raised |-> TRUE]
    ELSE IF CommandRaises(command, e)
         THEN [st |-> "settled", raised |-> FALSE,
               str |-> <<"Error: ", command, e>>, raw |-> <<"Error">>]
    ELSE [st |-> "settled", raised |-> FALSE,
          str |-> commandBody(command, e).str,
          raw |-> commandBody(command, e).raw]

\* output.resultStr.startsWith("Error:")
StartsWithError(str) == str[1] = "Error: "

\* The value of user_expr after the finally block left it as it was: a
\* faulty variant.
FinallyKeeps(current) == current

\* finally { try { pyodide.globals.del("user_expr") } catch (e) {} }
FinallyDel(current) == Unbound

\* The guard of doMaths switched off: a faulty variant.
NotReadyGuardOff == FALSE

\* if (!pyodideReady) { alert(...); return; }
NotReadyGuard == ~pyodideReady

\* A call that has started and not yet returned.
Outstanding(q) == pc[q] \in {"awaitPlotly", "awaitEngine"}

InitUI ==
    /\ pyodideReady = FALSE
    /\ loader = "loading"
    /\ plotly = FALSE
    /\ user_expr = Unbound
    /\ issued = 0
    /\ pc = [c \in Calls |-> "idle"]
    /\ req = [c \in Calls |-> NoReq]
    /\ py = [c \in Calls |-> NoPy]
    /\ engineQ = <<>>
    /\ outcome = [c \in Calls |-> "none"]
    /\ output = [by |-> 0, text |-> "", val |-> <<>>]
    /\ alertMsg = ""
    /\ deferred = [c \in Calls |-> "none"]
    /\ graph = [height |-> "", plot |-> 0]
    /\ clearTimers = 0
    /\ rawtext = [hidden |-> TRUE, height |-> "", raw |-> <<>>, latex |-> <<>>]
    /\ hideTimers = 0

IdleUI ==
    /\ pyodideReady = FALSE
    /\ loader = "idle"
    /\ plotly = FALSE
    /\ user_expr = Unbound
    /\ issued = MaxCalls
    /\ pc = [c \in Calls |-> "idle"]
    /\ req = [c \in Calls |-> NoReq]
    /\ py = [c \in Calls |-> NoPy]
    /\ engineQ = <<>>
    /\ outcome = [c \in Calls |-> "none"]
    /\ output = [by |-> 0, text |-> "", val |-> <<>>]
    /\ alertMsg = ""
    /\ deferred = [c \in Calls |-> "none"]
    /\ graph = [height |-> "", plot |-> 0]
    /\ clearTimers = 0
    /\ rawtext = [hidden |-> TRUE, height |-> "", raw |-> <<>>, latex |-> <<>>]
    /\ hideTimers = 0

\* loadPyodideAndPackages: both awaits resolved.
LoadSucceeds ==
    /\ loader = "loading"
    /\ pyodideReady' = TRUE
    /\ loader' = "ready"
    /\ UNCHANGED <<plotly, user_expr, issued, pc, req, py, engineQ, outcome,
                   output, alertMsg, deferred, graph, clearTimers, rawtext,
                   hideTimers>>
    /\ UNCHANGED <<parseVars, sampleVars>>

\* loadPyodideAndPackages: loadPyodide or loadPackage rejected.
LoadFails ==
    /\ loader = "loading"
    /\ pyodideReady' = FALSE
    /\ loader' = "failed"
    /\ UNCHANGED <<plotly, user_expr, issued, pc, req, py, engineQ, outcome,
                   output, alertMsg, deferred, graph, clearTimers, rawtext,
                   hideTimers>>
    /\ UNCHANGED <<parseVars, sampleVars>>

\* The Plotly script finishes loading and defines window.Plotly.
PlotlyLoads ==
    /\ ~plotly
    /\ plotly' = TRUE
    /\ UNCHANGED <<pyodideReady, loader, user_expr, issued, pc, req, py,
                   engineQ, outcome, output, alertMsg, deferred, graph,
                   clearTimers, rawtext, hideTimers>>
    /\ UNCHANGED <<parseVars, sampleVars>>

\* plotExpression from the resolved ensurePlotlyLoaded up to the await of
\* runPythonAsync inside computeXYWithPyodide.  computeXYWithPyodide throws
\* at once when pyodideReady is false, which plotExpression catches.
PlotContinue(c, e) ==
    IF ~pyodideReady
    THEN /\ output' = [by |-> c, text |-> MsgCouldNot, val |-> <<>>]
         /\ graph' = [height |-> "1px", plot |-> 0]
         /\ outcome' = [outcome EXCEPT ![c] = "graphFailed"]
         /\ pc' = [pc EXCEPT ![c] = "done"]
         /\ UNCHANGED <<user_expr, py, engineQ>>
    ELSE /\ output' = [by |-> c, text |-> MsgGenerating, val |-> <<>>]
         /\ user_expr' = e
         /\ py' = [py EXCEPT ![c] = [st |-> "scheduled"]]
         /\ engineQ' = Append(engineQ, c)
         /\ pc' = [pc EXCEPT ![c] = "awaitEngine"]
         /\ UNCHANGED <<graph, outcome>>

\* doMaths up to its first await that does not settle at once, for the
\* text raw in #box and the value sel of #command.
doMaths(raw, sel) ==
    /\ issued < MaxCalls
    /\ issued' = issued + 1
    /\ LET c          == issued + 1
           exprRaw    == Trim(raw)
           exprParsed == parseExpression(exprRaw)
           command    == IF sel = "" THEN "solve" ELSE sel
       IN
       IF NotReadyGuard
       THEN /\ alertMsg' = MsgLoading
            /\ outcome' = [outcome EXCEPT ![c] = "alert"]
            /\ pc' = [pc EXCEPT ![c] = "done"]
            /\ UNCHANGED <<pyodideReady, loader, plotly, user_expr, req, py,
                           engineQ, output, deferred, graph, clearTimers,
                           rawtext, hideTimers>>
       ELSE IF exprRaw = <<>>
       THEN /\ output' = [by |-> c, text |-> MsgEnter, val |-> <<>>]
            /\ outcome' = [outcome EXCEPT ![c] = "empty"]
            /\ pc' = [pc EXCEPT ![c] = "done"]
            /\ UNCHANGED <<pyodideReady, loader, plotly, user_expr, req, py,
                           engineQ, alertMsg, deferred, graph, clearTimers,
                           rawtext, hideTimers>>
       ELSE IF command = "graph"
       THEN \* plotExpression(exprParsed)
            /\ req' = LET mine ==
                          [sel |-> sel, command |-> command, expr |-> exprParsed,
                           alone |-> \A q \in Calls : ~Outstanding(q)]
                      IN  [q \in Calls |->
                              IF q = c THEN mine
                              ELSE IF Outstanding(q)
                                   THEN [req[q] EXCEPT !.alone = FALSE]
                              ELSE req[q]]
            /\ IF rawtext.height # "1px"
               THEN /\ rawtext' = [rawtext EXCEPT !.height = "1px"]
                    /\ hideTimers' = hideTimers + 1
               ELSE UNCHANGED <<rawtext, hideTimers>>
            /\ IF plotly
               THEN PlotContinue(c, exprParsed)
               ELSE /\ pc' = [pc EXCEPT ![c] = "awaitPlotly"]
                    /\ UNCHANGED <<user_expr, py, engineQ, outcome, output, graph>>
            /\ UNCHANGED <<pyodideReady, loader, plotly, alertMsg, deferred,
                           clearTimers>>
       ELSE \* runSympyCommand(exprParsed, command)
            /\ req' = LET mine ==
                          [sel |-> sel, command |-> command, expr |-> exprParsed,
                           alone |-> \A q \in Calls : ~Outstanding(q)]
                      IN  [q \in Calls |->
                              IF q = c THEN mine
                              ELSE IF Outstanding(q)
                                   THEN [req[q] EXCEPT !.alone = FALSE]
                              ELSE req[q]]
            /\ IF graph.height # "1px"
               THEN /\ graph' = [graph EXCEPT !.height = "1px"]
                    /\ clearTimers' = clearTimers + 1
               ELSE UNCHANGED <<graph, clearTimers>>
            /\ rawtext' = [rawtext EXCEPT !.hidden = TRUE, !.height = "100px"]
            /\ IF ~pyodideReady
               THEN /\ output' = [by |-> c, text |-> MsgError, val |-> <<>>]
                    /\ outcome' = [outcome EXCEPT ![c] = "threw"]
                    /\ pc' = [pc EXCEPT ![c] = "done"]
                    /\ UNCHANGED <<user_expr, py, engineQ>>
               ELSE /\ output' = [by |-> c, text |-> MsgComputing, val |-> <<>>]
                    /\ user_expr' = exprParsed
                    /\ py' = [py EXCEPT ![c] = [st |-> "scheduled"]]
                    /\ engineQ' = Append(engineQ, c)
                    /\ pc' = [pc EXCEPT ![c] = "awaitEngine"]
                    /\ UNCHANGED outcome
            /\ UNCHANGED <<pyodideReady, loader, plotly, alertMsg, deferred,
                           hideTimers>>
    /\ UNCHANGED <<parseVars, sampleVars>>

\* ensurePlotlyLoaded: the 50 ms poll finds window.Plotly and resolves;
\* plotExpression goes on.
PlotlyPoll(c) ==
    /\ pc[c] = "awaitPlotly"
    /\ plotly
    /\ PlotContinue(c, req[c].expr)
    /\ UNCHANGED <<pyodideReady, loader, plotly, issued, req, alertMsg,
                   deferred, clearTimers, rawtext, hideTimers>>
    /\ UNCHANGED <<parseVars, sampleVars>>

\* ensurePlotlyLoaded: 7000 ms passed without window.Plotly; it rejects.
PlotlyTimeout(c) ==
    /\ pc[c] = "awaitPlotly"
    /\ ~plotly
    /\ output' = [by |-> c, text |-> MsgNoPlotly, val |-> <<>>]
    /\ outcome' = [outcome EXCEPT ![c] = "plotlyMissing"]
    /\ pc' = [pc EXCEPT ![c] = "done"]
    /\ UNCHANGED <<pyodideReady, loader, plotly, user_expr, issued, req, py,
                   engineQ, alertMsg, deferred, graph, clearTimers, rawtext,
                   hideTimers>>
    /\ UNCHANGED <<parseVars, sampleVars>>

\* The engine runs the oldest snippet handed to runPythonAsync and not yet
\* run.  The snippet reads user_expr as it is bound now.  Of the 600 samples
\* of a graph call the promise keeps what plotExpression reads of them once
\* computeXYWithPyodide has parsed them: whether the call threw and whether
\* any y is a number.
PyRun(c) ==
    /\ \E k \in 1..Len(engineQ) :
          /\ engineQ[k] = c
          /\ \A m \in 1..(k - 1) : py[engineQ[m]].st # "scheduled"
    /\ py[c].st = "scheduled"
    /\ \E castRaises \in BOOLEAN :
          py' = [py EXCEPT ![c] =
                    IF req[c].command = "graph"
                    THEN LET obj == SampleFromPython(
                                 pyCode(user_expr, GraphXMin, GraphXMax,
                                        GraphPoints, castRaises))
                         IN  [st |-> "settled", ok |-> obj.ok,
                              hasNumeric |-> hasNumeric(obj)]
                    ELSE sympyCode(req[c].command, user_expr)]
    /\ UNCHANGED <<pyodideReady, loader, plotly, user_expr, issued, pc, req,
                   engineQ, outcome, output, alertMsg, deferred, graph,
                   clearTimers, rawtext, hideTimers>>
    /\ UNCHANGED <<parseVars, sampleVars>>

\* The await of runPythonAsync resumes in runSympyCommand, whose finally
\* block runs, then in doMaths.
ResumeSympy(c) ==
    /\ engineQ # <<>> /\ Head(engineQ) = c
    /\ py[c].st = "settled"
    /\ req[c].command # "graph"
    /\ engineQ' = Tail(engineQ)
    /\ py' = [py EXCEPT ![c] = NoPy]
    /\ user_expr' = FinallyDel(user_expr)
    /\ pc' = [pc EXCEPT ![c] = "done"]
    /\ IF py[c].raised
       THEN /\ output' = [by |-> c, text |-> MsgError, val |-> <<>>]
            /\ outcome' = [outcome EXCEPT ![c] = "threw"]
            /\ UNCHANGED rawtext
       ELSE IF StartsWithError(py[c].str)
       THEN /\ output' = [by |-> c, text |-> "Error:", val |-> py[c].str]
            /\ outcome' = [outcome EXCEPT ![c] = "engineError"]
            /\ UNCHANGED rawtext
       ELSE /\ output' = [by |-> c, text |-> "$$", val |-> py[c].str]
            /\ outcome' = [outcome EXCEPT ![c] = "result"]
            /\ rawtext' = [hidden |-> FALSE, height |-> "100px",
                           raw |-> py[c].raw, latex |-> py[c].str]
    /\ UNCHANGED <<pyodideReady, loader, plotly, issued, req, alertMsg,
                   deferred, graph, clearTimers, hideTimers>>
    /\ UNCHANGED <<parseVars, sampleVars>>

\* The await of runPythonAsync resumes in computeXYWithPyodide (JSON.parse,
\* the map over ys, the finally block), then in plotExpression up to its
\* return.  Plotly.newPlot may throw.
ResumePlot(c) ==
    /\ engineQ # <<>> /\ Head(engineQ) = c
    /\ py[c].st = "settled"
    /\ req[c].command = "graph"
    /\ engineQ' = Tail(engineQ)
    /\ py' = [py EXCEPT ![c] = NoPy]
    /\ user_expr' = FinallyDel(user_expr)
    /\ pc' = [pc EXCEPT ![c] = "done"]
    /\ \E newPlotThrows \in BOOLEAN :
       IF ~py[c].ok
       THEN /\ output' = [by |-> c, text |-> MsgCouldNot, val |-> <<>>]
            /\ graph' = [height |-> "1px", plot |-> 0]
            /\ outcome' = [outcome EXCEPT ![c] = "graphFailed"]
            /\ UNCHANGED deferred
       ELSE IF ~py[c].hasNumeric
       THEN /\ output' = [by |-> c, text |-> MsgNonReal, val |-> <<>>]
            /\ graph' = [height |-> "1px", plot |-> 0]
            /\ outcome' = [outcome EXCEPT ![c] = "nonReal"]
            /\ UNCHANGED deferred
       ELSE /\ deferred' = [deferred EXCEPT ![c] = "raf"]
            /\ IF newPlotThrows
               THEN /\ output' = [by |-> c, text |-> MsgRender, val |-> <<>>]
                    /\ graph' = [height |-> "400px", plot |-> 0]
                    /\ outcome' = [outcome EXCEPT ![c] = "renderError"]
               ELSE /\ output' = [by |-> c, text |-> MsgGraphed, val |-> <<>>]
                    /\ graph' = [height |-> "1px", plot |-> c]
                    /\ outcome' = [outcome EXCEPT ![c] = "graphed"]
    /\ UNCHANGED <<pyodideReady, loader, plotly, issued, req, alertMsg,
                   clearTimers, rawtext, hideTimers>>
    /\ UNCHANGED <<parseVars, sampleVars>>

\* The requestAnimationFrame callback of plotExpression.
AnimationFrame(c) ==
    /\ deferred[c] = "raf"
    /\ deferred' = [deferred EXCEPT ![c] = "timer"]
    /\ graph' = [graph EXCEPT !.height = "400px"]
    /\ UNCHANGED <<pyodideReady, loader, plotly, user_expr, issued, pc, req,
                   py, engineQ, outcome, output, alertMsg, clearTimers,
                   rawtext, hideTimers>>
    /\ UNCHANGED <<parseVars, sampleVars>>

\* The setTimeout(450) callback inside it: Plotly.newPlot, which may throw,
\* then the write of "Graph generated below.".
PlotTimer(c) ==
    /\ deferred[c] = "timer"
    /\ deferred' = [deferred EXCEPT ![c] = "fired"]
    /\ \E newPlotThrows \in BOOLEAN :
          IF newPlotThrows
          THEN UNCHANGED <<graph, output>>
          ELSE /\ graph' = [graph EXCEPT !.plot = c]
               /\ output' = [by |-> c, text |-> MsgGraphed, val |-> <<>>]
    /\ UNCHANGED <<pyodideReady, loader, plotly, user_expr, issued, pc, req,
                   py, engineQ, outcome, alertMsg, clearTimers, rawtext,
                   hideTimers>>
    /\ UNCHANGED <<parseVars, sampleVars>>

\* setTimeout(() => { graphDiv.innerHTML = ""; }, 400) of doMaths.
ClearGraphTimer ==
    /\ clearTimers > 0
    /\ clearTimers' = clearTimers - 1
    /\ graph' = [graph EXCEPT !.plot = 0]
    /\ UNCHANGED <<pyodideReady, loader, plotly, user_expr, issued, pc, req,
                   py, engineQ, outcome, output, alertMsg, deferred, rawtext,
                   hideTimers>>
    /\ UNCHANGED <<parseVars, sampleVars>>

\* setTimeout(() => { rawTextDiv.hidden = "true"; }, 400) of plotExpression.
HideRawTimer ==
    /\ hideTimers > 0
    /\ hideTimers' = hideTimers - 1
    /\ rawtext' = [rawtext EXCEPT !.hidden = TRUE]
    /\ UNCHANGED <<pyodideReady, loader, plotly, user_expr, issued, pc, req,
                   py, engineQ, outcome, output, alertMsg, deferred, graph,
                   clearTimers>>
    /\ UNCHANGED <<parseVars, sampleVars>>

NextUI ==
    \/ LoadSucceeds
    \/ LoadFails
    \/ PlotlyLoads
    \/ \E raw \in BoxValues, sel \in SelectValues : doMaths(raw, sel)
    \/ \E c \in Calls : PlotlyPoll(c)
    \/ \E c \in Calls : PlotlyTimeout(c)
    \/ \E c \in Calls : PyRun(c)
    \/ \E c \in Calls : ResumeSympy(c)
    \/ \E c \in Calls : ResumePlot(c)
    \/ \E c \in Calls : AnimationFrame(c)
    \/ \E c \in Calls : PlotTimer(c)
    \/ ClearGraphTimer
    \/ HideRawTimer

(***************************************************************************)
(* SpecParse: parseExpression applied once to a bounded input.             *)
(***************************************************************************)
RECURSIVE StringsUpTo(_)
StringsUpTo(n) ==
    IF n = 0 THEN {<<>>}
    ELSE LET shorter == StringsUpTo(n - 1) IN
         shorter \cup {Append(s, ch) : s \in {t \in shorter : Len(t) = n - 1},
                                        ch \in Alphabet}

\* The examples of the specification, longer than MaxLen.
ExampleInputs ==
    { <<"2", "x">>,
      <<"3", "(", "x", "+", "1", ")">>,
      <<"(", "x", "+", "1", ")", "(", "x", "-", "1", ")">>,
      <<"(", "x", "+", "1", ")", "2">>,
      <<"x", "^", "2">>,
      <<"x", "+", "1", "=", "3">>,
      <<"x", "^", "2", "-", "4", "=", "0">>,
      <<"x", " ", "=", " ", "2", "x", " ", "=", " ", "3">>,
      <<"2", "x", "+", "1">> }

ParseInputs == StringsUpTo(MaxLen) \cup ExampleInputs

InitParse ==
    /\ pIn \in ParseInputs
    /\ pOut = NotRun
    /\ pAgain = NotRun
    /\ pPhase = "input"

IdleParse ==
    /\ pIn = <<>>
    /\ pOut = NotRun
    /\ pAgain = NotRun
    /\ pPhase = "idle"

Parse ==
    /\ pPhase = "input"
    /\ pOut' = parseExpression(pIn)
    /\ pPhase' = "parsed"
    /\ UNCHANGED <<pIn, pAgain>>
    /\ UNCHANGED <<sampleVars, uiVars>>

\* parseExpression called on the text an earlier call returned.
Reparse ==
    /\ pPhase = "parsed"
    /\ pAgain' = parseExpression(pOut)
    /\ pPhase' = "reparsed"
    /\ UNCHANGED <<pIn, pOut>>
    /\ UNCHANGED <<sampleVars, uiVars>>

NextParse == Parse \/ Reparse

vars == <<parseVars, sampleVars, uiVars>>

StartParse == InitParse /\ IdleSample /\ IdleUI

SpecParse == StartParse /\ [][NextParse]_vars

StartSample == InitSample /\ IdleParse /\ IdleUI

SpecSample == StartSample /\ [][NextSample]_vars

Next == NextUI

Init == InitUI /\ IdleParse /\ IdleSample

Spec == Init /\ [][Next]_vars

(***************************************************************************)
(* Claims about parseExpression (checked under SpecParse).                 *)
(***************************************************************************)
\* A place where a multiplication marker belongs: position i of s and the
\* next character form (digit, letter), or, whitespace between them or not,
\* (")", letter or digit), (digit, "(") or (")", "(").
GapAt(s, i) ==
    LET j == SkipWS(s, i + 1) IN
    \/ i < Len(s) /\ s[i] \in Digits /\ s[i + 1] \in Letters
    \/ j <= Len(s) /\ s[i] = ")" /\ s[j] \in AlphaNum
    \/ j <= Len(s) /\ s[i] \in Digits /\ s[j] = "("
    \/ j <= Len(s) /\ s[i] = ")" /\ s[j] = "("

Gaps(s) == Cardinality({i \in 1..Len(s) : GapAt(s, i)})

\* Two characters next to each other with no marker between them.
Adjacent(a, b) ==
    \/ a \in Digits /\ b \in Letters
    \/ a = ")" /\ b \in AlphaNum
    \/ a \in Digits /\ b = "("
    \/ a = ")" /\ b = "("

NoAdjacency(s) == \A i \in 1..(Len(s) - 1) : ~Adjacent(s[i], s[i + 1])

\* An input with no whitespace, "^" or "=": only the markers can change it.
Plain(s) == \A i \in 1..Len(s) : s[i] \notin (Whitespace \cup {"^", "="})

RECURSIVE WithMarkersFrom(_, _)
WithMarkersFrom(s, i) ==
    IF i > Len(s) THEN <<>>
    ELSE IF i < Len(s) /\ Adjacent(s[i], s[i + 1])
         THEN <<s[i], "*">> \o WithMarkersFrom(s, i + 1)
    ELSE <<s[i]>> \o WithMarkersFrom(s, i + 1)

\* C9: after parseExpression no two characters of the result are adjacent
\* as (digit, letter), (")", letter or digit), (digit, "(") or (")", "(");
\* the number of "*" grows by exactly one per such place of the input (and
\* two per "^"), so no place gets two; and an input without whitespace, "^"
\* and "=" comes back as itself with one "*" at each adjacency and nowhere
\* else.
C9_OneMarkerPerAdjacency ==
    pPhase = "parsed" =>
        /\ NoAdjacency(pOut)
        /\ Count("*", pOut) =
               Count("*", pIn) + 2 * Count("^", pIn) + Gaps(Trim(pIn))
        /\ Plain(pIn) => pOut = WithMarkersFrom(pIn, 1)

\* C9 witness: (x+1)(x-1) has been rewritten to (x+1)*(x-1).
C9_Witness ==
    /\ pPhase = "parsed"
    /\ pIn = <<"(", "x", "+", "1", ")", "(", "x", "-", "1", ")">>
    /\ pOut = <<"(", "x", "+", "1", ")", "*", "(", "x", "-", "1", ")">>

\* The number of places where a is directly followed by b.
CountPair(a, b, s) ==
    Cardinality({i \in 1..(Len(s) - 1) : s[i] = a /\ s[i + 1] = b})

FirstIndex(ch, s) == CHOOSE i \in 1..Len(s) : s[i] = ch /\ \A m \in 1..(i - 1) : s[m] # ch

\* C10: an input containing "=" comes back as lhs-(rhs): the normalised
\* text before its first "=", then "-(", then the normalised text after that
\* "=" with every later "=" still in it, then one ")"; an input without "="
\* gains no "-(" and no ")".
C10_EquationForm ==
    pPhase = "parsed" =>
        LET n == CollapseWhitespace(Marked(pIn)) IN
        IF Contains(pIn, "=")
        THEN LET k   == FirstIndex("=", n)
                 lhs == SubSeq(n, 1, SkipWSBack(n, k - 1))
                 rhs == SubSeq(n, SkipWS(n, k + 1), Len(n))
             IN  /\ pOut = lhs \o <<"-", "(">> \o rhs \o <<")">>
                 /\ Count("=", rhs) = Count("=", pIn) - 1
                 /\ Count("=", pOut) = Count("=", pIn) - 1
                 /\ Count(")", pOut) = Count(")", pIn) + 1
                 /\ pOut[Len(pOut)] = ")"
        ELSE /\ Count(")", pOut) = Count(")", pIn)
             /\ CountPair("-", "(", pOut) = CountPair("-", "(", pIn)
             /\ Count("=", pOut) = 0

\* C10 witness: "x = 2x = 3" has been rewritten to "x-(2*x = 3)", its second
\* "=" still there.
C10_Witness ==
    /\ pPhase = "parsed"
    /\ pIn = <<"x", " ", "=", " ", "2", "x", " ", "=", " ", "3">>
    /\ pOut = <<"x", "-", "(", "2", "*", "x", " ", "=", " ", "3", ")">>

\* Engine-acceptable form: no "^" and no "="; multiplication and powers,
\* where there are any, are written "*" and "**".
EngineAcceptable(s) == ~Contains(s, "^") /\ ~Contains(s, "=")

\* C11: for every input without "^" and "=", whether or not all of its
\* multiplications are explicit already, parseExpression applied to its own
\* result returns that result unchanged.
C11_Idempotent ==
    (pPhase = "reparsed" /\ EngineAcceptable(pIn)) => pAgain = pOut

C11_Witness ==
    /\ pPhase = "reparsed"
    /\ pIn = <<"2", "x", "*", "*", "2">>
    /\ pOut = <<"2", "*", "x", "*", "*", "2">>
    /\ pAgain = pOut

(***************************************************************************)
(* Claims about computeXYWithPyodide (checked under SpecSample).           *)
(***************************************************************************)
\* C7: sampling an expression that evaluates to an array returns the whole
\* sequence, with null at exactly the indices whose value is complex,
\* +infinity, -infinity or not-a-number and a finite number at every other
\* index.
C7_GapPolicy ==
    (sPhase = "sampled" /\ ~SympifyRaises(sExpr) /\ ~ScalarResult(sExpr)) =>
        /\ sResult.ok
        /\ Len(sResult.ys) = sPoints
        /\ \A i \in 1..sPoints :
              LET v == NumpyValue(sExpr, Linspace(sMin, sMax, sPoints)[i]) IN
              sResult.ys[i] = (IF v = "finite" THEN "num" ELSE "null")

C1_OneEngineCallInFlight ==
    Cardinality({c \in Calls : pc[c] = "awaitEngine"}) <= 1

\* C2: results reach #output in the order of their triggers.  Take a call q
\* triggered when every earlier call had returned: once q has ended, no step
\* writes #output on behalf of an earlier call, so what q wrote stays on
\* display until a later call writes.
C2_WritesInIssueOrder ==
    [][output' # output =>
          \A q \in Calls :
              (q > output'.by /\ req[q].alone) => outcome[q] = "none"]_vars

\* C3: the Python of a non-graph call never raises out of runPythonAsync,
\* so no such call ends in the catch block of doMaths: an engine-side
\* exception always comes back as the "Error:" result.
C3_EngineFaultsConverted ==
    \A c \in Calls :
        (req[c] # NoReq /\ req[c].command # "graph") =>
            /\ py[c].st = "settled" => ~py[c].raised
            /\ outcome[c] # "threw"

\* The texts that report a failed computation.
ComputationErrorTexts ==
    {MsgError, MsgCouldNot, MsgDataBad, MsgNonReal, MsgRender, MsgNoPlotly,
     "Error:"}

\* C4: while pyodideReady is false no trigger of doMaths dispatches: every
\* trigger so far ended in the alert, user_expr is unbound, nothing was
\* handed to the engine, #output is untouched, and the alert's text is no
\* computation-error text.
C4_NotReadyBlocksDispatch ==
    ~pyodideReady =>
        /\ user_expr = Unbound
        /\ engineQ = <<>>
        /\ \A c \in Calls :
              /\ py[c] = NoPy
              /\ req[c] = NoReq
              /\ c <= issued => pc[c] = "done" /\ outcome[c] = "alert"
        /\ output.by = 0 /\ output.text = ""
        /\ issued > 0 => alertMsg = MsgLoading
        /\ alertMsg \notin ComputationErrorTexts

\* C4 witness: the load failed and a trigger was answered with the notice.
C4_Witness ==
    /\ loader = "failed"
    /\ ~pyodideReady
    /\ issued > 0
    /\ alertMsg = MsgLoading

\* How a call can end in failure.
FailedOutcomes ==
    {"engineError", "threw", "graphFailed", "nonReal", "plotlyMissing",
     "renderError"}

\* How a non-graph call ends when it is handled on its own.
OwnOutcome(r) ==
    IF SympifyRaises(r.expr) THEN "threw"
    ELSE IF CommandRaises(r.command, r.expr) THEN "engineError"
    ELSE "result"

\* C5: once a call has ended in failure the ready flag is still true, a
\* bound user_expr is the binding of a call still awaiting the engine (the
\* failed call left none), the engine holds no snippet of a call that has
\* returned, and a non-graph call triggered afterwards with no other call
\* outstanding ends as its own expression and command decide, its result
\* being the one computed from its own expression.
C5_FailureIsLocal ==
    (\E f \in Calls : outcome[f] \in FailedOutcomes) =>
        /\ pyodideReady
        /\ user_expr # Unbound =>
              \E q \in Calls : pc[q] = "awaitEngine" /\ req[q].expr = user_expr
        /\ \A k \in 1..Len(engineQ) : pc[engineQ[k]] = "awaitEngine"
        /\ \A q \in Calls :
              ( /\ \E f \in 1..(q - 1) : outcome[f] \in FailedOutcomes
                /\ pc[q] = "done" /\ req[q] # NoReq /\ req[q].alone
                /\ req[q].command # "graph" ) =>
                  /\ outcome[q] = OwnOutcome(req[q])
                  /\ (output.by = q /\ output.text = "$$") =>
                        output.val = commandBody(req[q].command, req[q].expr).str

\* C5 witness: a call failed, and the next call, triggered after it had
\* returned, ended with its own result on the page.
C5_Witness ==
    \E f \in Calls, q \in Calls :
        /\ f < q
        /\ outcome[f] \in FailedOutcomes
        /\ req[q].alone /\ outcome[q] = "result"
        /\ user_expr = Unbound
        /\ output.by = q /\ output.text = "$$"

\* The path doMaths takes for a command.
Route(command) ==
    IF command = "graph" THEN "computeXYWithPyodide" ELSE "runSympyCommand"

\* C6: a dispatched call runs the command that was selected; a command of
\* the enumeration takes one of the two paths; any other selection is
\* rejected: it is not replaced by a default and does not end as a result.
C6_DispatcherComplete ==
    \A c \in Calls :
        (pc[c] = "done" /\ req[c] # NoReq) =>
            /\ req[c].command = req[c].sel
            /\ Route(req[c].command) \in {"computeXYWithPyodide", "runSympyCommand"}
            /\ req[c].sel \notin CommandEnum =>
                  outcome[c] \notin {"result", "graphed"}

\* C12: whenever the Python code of a call runs, the global user_expr it
\* reads is bound and is the exprParsed that call was given.
C12_ReadsOwnExpression ==
    [][\A c \in Calls :
          (py[c].st = "scheduled" /\ py'[c].st = "settled") =>
              (user_expr # Unbound /\ user_expr = req[c].expr)]_vars

====
